---- MODULE Spec2Model ----
(***************************************************************************)
(* Model of pkg/session/connection.go: the connection registry             *)
(* (connectionMap), its structural operations, the message dispatch        *)
(* routine broadcastMessage and the idle watchdog disconnectIfIdle.        *)
(***************************************************************************)
EXTENDS Integers, Sequences, FiniteSets, TLC

(* ------------------------------ bounds -------------------------------- *)

\* Longest message payload (msg.Contents) that is dispatched.
MaxPayload == 1

\* c.timeout of the watched connection, in clock ticks.
Timeout == 2

\* Last instant of the clock.
MaxTime == 4

\* Number of reset signals the connection's reader offers.
MaxResets == 2

(* ----------------------------- constants ------------------------------ *)

pendingState == 0

connectedState == 1

\* Remote endpoint addresses (conn.RemoteAddr().String()), the registry keys.
Ids == {"ip1", "ip2", "ip3"}

\* Participant usernames; text is a sequence of one-character strings.
Names == {<<"a">>, <<"A">>, <<"b">>}

\* The zero value of types.Participant.Username.
NoName == <<>>

\* msg.SentTime of the dispatched messages.
SentTimes == {<<"t">>}

\* msg.Contents: the payloads of 1..MaxPayload bytes.
Payloads == {[i \in 1..k |-> "x"] : k \in 1..MaxPayload}

\* Value of connections[ip] for a key that is not in the map.
NoConn == [absent |-> TRUE]

NoMsg == [kind |-> "none"]

\* The connection whose watchdog is followed.
Watched == "ip1"

\* The reset channel made with room for one signal.
abortChanCap_Buffered == 1 + 0

\* Capacity of c.abortConnectionTimeout: make(chan struct{}) is unbuffered.
abortChanCap == 0

\* time.Timer channels: buffered and filled by the runtime at expiry
\* ("async", Go before 1.23) or delivering at the receive ("sync", Go 1.23 on).
TimerModes == {"async", "sync"}

\* Value of lastReset and closedAt before the event.
Never == 0 - 1

VARIABLES
    connections,      \* cm.connections: ipAddr -> connection (or NoConn)
    mu,               \* cm.mu: [writer, readers] of the RWMutex
    pc,               \* broadcastMessage: "idle" or "running"
    msg,              \* the message of the dispatch in flight
    pending,          \* keys the range loop of the dispatch has still to visit
    senderWasSkipped, \* local of the ChatMessage case
    sentCount,        \* local sentCount, the return value
    writes,           \* the util.WriteBytes calls of the dispatch, in order
    skipped,          \* keys the dispatch skipped as the sender
    snap,             \* cm.connections when the dispatch took the read lock
    panicked,         \* the dispatch ended in log.Logger.Panic
    last,             \* the most recent operation on the registry and its outcome
    added,            \* ids with an addConn and no later successful removeConn
    wpc,              \* disconnectIfIdle: "off", "select", "stop", "drain", "reset", "done"
    wpath,            \* the select case through which disconnectIfIdle returned
    now,              \* the clock
    timerMode,        \* which time.Timer channel semantics the build has
    timer,            \* the runtime timer: [active, when]
    timerSending,     \* the runtime has expired the timer and not yet sent on timer.C
    timerC,           \* number of values buffered in timer.C
    ctxDone,          \* c.ctx is cancelled
    extCancelled,     \* c.cancel() was called from outside the watchdog
    sockCloses,       \* number of c.netConn.Close() calls the watchdog made
    closedAt,         \* instant of the watchdog's Close
    resetSender,      \* the reader offering a reset: "idle" or "offering" (blocked in the send)
    chanBuf,          \* number of values buffered in c.abortConnectionTimeout
    resets,           \* number of resets offered so far
    lastReset         \* instant the watchdog last received a reset

registryVars == <<connections, mu, pc, msg, pending, senderWasSkipped,
                  sentCount, writes, skipped, snap, panicked, last, added>>

watchdogVars == <<wpc, wpath, now, timerMode, timer, timerSending, timerC, ctxDone,
                  extCancelled, sockCloses, closedAt, resetSender, chanBuf, resets,
                  lastReset>>

vars == <<registryVars, watchdogVars>>

dispatchVars == <<pc, msg, pending, senderWasSkipped, sentCount, writes,
                  skipped, snap, panicked>>

(* ------------------------------ helpers ------------------------------- *)

Min(a, b) == IF a < b THEN a ELSE b

\* Simple case folding of one character, as strings.EqualFold applies it.
Lower(c) == CASE c = "A" -> "a" [] c = "B" -> "b" [] OTHER -> c

\* strings.EqualFold(s, t)
EqualFold(s, t) ==
    /\ Len(s) = Len(t)
    /\ \A i \in 1..Len(s) : Lower(s[i]) = Lower(t[i])

\* util.Fmtln("{%s:%s} %s", sender, sentTime, contents): the formatted line
\* with a line feed appended.
Fmtln(sender, sentTime, contents) ==
    <<"{">> \o sender \o <<":">> \o sentTime \o <<"}", " ">> \o contents \o <<"\n">>

\* The results util.WriteBytes(conn, buffer) may return for a buffer: the
\* number of bytes written and whether an error came with it.
WriteResults(data) ==
    {[n |-> Len(data), err |-> FALSE], [n |-> 0, err |-> TRUE]}
    \cup {[n |-> k, err |-> FALSE] : k \in 0..Min(MaxPayload, Len(data) - 1)}

\* newConn(conn, timeout) for a socket whose remote endpoint is ip.
newConn(ip) ==
    [ipAddr |-> ip, username |-> NoName, state |-> pendingState]

\* c.matchState(state)
matchState(c, state) == c.state = state

\* cm._doesConnExist(connIpAddr)
doesConnExist(ip) == connections[ip] # NoConn

\* The keys of cm.connections.
Keys == {ip \in Ids : doesConnExist(ip)}

(* ----------------------------- sync.RWMutex --------------------------- *)

CanLock == ~mu.writer /\ mu.readers = 0

CanRLock == ~mu.writer

Locked == [mu EXCEPT !.writer = TRUE]

Unlocked(m) == [m EXCEPT !.writer = FALSE]

RLocked == [mu EXCEPT !.readers = @ + 1]

RUnlocked(m) == [m EXCEPT !.readers = @ - 1]

(* ------------------------------- Init --------------------------------- *)

\* The fields newConn gives a connection for its watchdog, before
\* disconnectIfIdle runs.
WatchdogNotStarted ==
    /\ wpc = "off"
    /\ wpath = "none"
    /\ now = 0
    /\ timer = [active |-> FALSE, when |-> 0]
    /\ timerSending = FALSE
    /\ timerC = 0
    /\ ctxDone = FALSE
    /\ extCancelled = FALSE
    /\ sockCloses = 0
    /\ closedAt = Never
    /\ resetSender = "idle"
    /\ chanBuf = 0
    /\ resets = 0
    /\ lastReset = Never

Init ==
    /\ connections = [ip \in Ids |-> NoConn]
    /\ mu = [writer |-> FALSE, readers |-> 0]
    /\ pc = "idle"
    /\ msg = NoMsg
    /\ pending = {}
    /\ senderWasSkipped = FALSE
    /\ sentCount = 0
    /\ writes = <<>>
    /\ skipped = {}
    /\ snap = [ip \in Ids |-> NoConn]
    /\ panicked = FALSE
    /\ last = [op |-> "none"]
    /\ added = {}
    /\ timerMode = "async"
    /\ WatchdogNotStarted

(* ------------------------- registry operations ------------------------ *)

\* cm.addConn(newConn(socket of ip, timeout))
AddConn(ip) ==
    /\ CanLock
    /\ connections' = [connections EXCEPT ![ip] = newConn(ip)]
    /\ mu' = Unlocked(Locked)
    /\ last' = [op |-> "add", id |-> ip, panic |-> FALSE]
    /\ added' = added \cup {ip}
    /\ UNCHANGED <<dispatchVars, watchdogVars>>

\* removeConn with the unlock written at the end instead of deferred: the
\* panic leaves the lock held.
RemoveConn_NoDefer(ip) ==
    /\ CanLock
    /\ IF ~doesConnExist(ip)
       THEN /\ last' = [op |-> "remove", id |-> ip, panic |-> TRUE]
            /\ mu' = Locked
            /\ UNCHANGED <<connections, added>>
       ELSE /\ connections' = [connections EXCEPT ![ip] = NoConn]
            /\ last' = [op |-> "remove", id |-> ip, panic |-> FALSE]
            /\ added' = added \ {ip}
            /\ mu' = Unlocked(Locked)
    /\ UNCHANGED <<dispatchVars, watchdogVars>>

\* removeConn without the delete.
RemoveConn_NoDelete(ip) ==
    /\ CanLock
    /\ IF ~doesConnExist(ip)
       THEN /\ last' = [op |-> "remove", id |-> ip, panic |-> TRUE]
            /\ UNCHANGED <<connections, added>>
       ELSE /\ last' = [op |-> "remove", id |-> ip, panic |-> FALSE]
            /\ added' = added \ {ip}
            /\ UNCHANGED connections
    /\ mu' = Unlocked(Locked)
    /\ UNCHANGED <<dispatchVars, watchdogVars>>

\* cm.removeConn(connIpAddr)
RemoveConn(ip) ==
    /\ CanLock
    /\ IF ~doesConnExist(ip)
       THEN /\ last' = [op |-> "remove", id |-> ip, panic |-> TRUE]
            /\ UNCHANGED <<connections, added>>
       ELSE /\ connections' = [connections EXCEPT ![ip] = NoConn]
            /\ last' = [op |-> "remove", id |-> ip, panic |-> FALSE]
            /\ added' = added \ {ip}
    /\ mu' = Unlocked(Locked)
    /\ UNCHANGED <<dispatchVars, watchdogVars>>

\* cm.markAsConnected(connIpAddr)
MarkAsConnected(ip) ==
    /\ CanLock
    /\ IF ~doesConnExist(ip)
       THEN /\ last' = [op |-> "mark", id |-> ip, panic |-> TRUE]
            /\ UNCHANGED connections
       ELSE /\ connections' = [connections EXCEPT ![ip].state = connectedState]
            /\ last' = [op |-> "mark", id |-> ip, panic |-> FALSE]
    /\ mu' = Unlocked(Locked)
    /\ UNCHANGED <<added, dispatchVars, watchdogVars>>

\* The authentication collaborator stores the validated identity in
\* conn.participant.Username before the connection is marked connected.
SetParticipant(ip, name) ==
    /\ doesConnExist(ip)
    /\ matchState(connections[ip], pendingState)
    /\ connections[ip].username = NoName
    /\ connections' = [connections EXCEPT ![ip].username = name]
    /\ last' = [op |-> "auth", id |-> ip, panic |-> FALSE]
    /\ UNCHANGED <<mu, added, dispatchVars, watchdogVars>>

\* hasConnectedParticipant comparing the names with strings.EqualFold, as the
\* chat loop does.
HasConnectedParticipant_Fold(username) ==
    /\ CanRLock
    /\ last' = [op |-> "has", id |-> username, panic |-> FALSE,
                result |-> \E ip \in Keys :
                              /\ matchState(connections[ip], connectedState)
                              /\ EqualFold(connections[ip].username, username)]
    /\ mu' = RUnlocked(RLocked)
    /\ UNCHANGED <<connections, added, dispatchVars, watchdogVars>>

\* cm.hasConnectedParticipant(username)
HasConnectedParticipant(username) ==
    /\ CanRLock
    /\ last' = [op |-> "has", id |-> username, panic |-> FALSE,
                result |-> \E ip \in Keys :
                              /\ matchState(connections[ip], connectedState)
                              /\ connections[ip].username = username]
    /\ mu' = RUnlocked(RLocked)
    /\ UNCHANGED <<connections, added, dispatchVars, watchdogVars>>

(* ------------------------------ dispatch ------------------------------ *)

ChatMessages ==
    {[kind |-> "chat", Sender |-> s, SentTime |-> t, Contents |-> c] :
        s \in Names, t \in SentTimes, c \in Payloads}

\* Recipient "" is the broadcast destination.
SysMessages ==
    {[kind |-> "sys", Recipient |-> r, Contents |-> c] :
        r \in Ids \cup {""}, c \in Payloads}

\* A value whose dynamic type is neither *ChatMessage nor *SysMessage.
OtherMessages == {[kind |-> "other"]}

\* The canonical line of a chat message (canonChatMsg).
canonChatMsg(m) == Fmtln(m.Sender, m.SentTime, m.Contents)

\* The success test without the byte count: a short write counts.
Delivered_IgnoreShort(r, m) == ~r.err

\* The success test applied to the result of a write: err == nil and
\* n == msg.Contents.Len().
Delivered(r, m) == ~(r.err \/ r.n # Len(m.Contents))

\* The sender test without the flag: every entry matching the sender is skipped.
IsSkippedSender_All(c, m) == EqualFold(c.username, m.Sender)

\* The sender test of the chat loop.
IsSkippedSender(c, m) ==
    ~senderWasSkipped /\ EqualFold(c.username, m.Sender)

\* The range loop without the state test.
IsRecipient_Any(c) == TRUE

\* The entries a range loop of the dispatch writes to.
IsRecipient(c) == matchState(c, connectedState)

\* The directed lookup with a state test added.
DirectedExists_ConnectedOnly(m) ==
    doesConnExist(m.Recipient) /\ matchState(connections[m.Recipient], connectedState)

\* The entry a directed system message is written to.
DirectedExists(m) == doesConnExist(m.Recipient)

WriteRec(c, data, r) ==
    [ip |-> c.ipAddr, data |-> data, n |-> r.n, err |-> r.err]

\* The entry of broadcastMessage without cm.mu.RLock().
Enter_NoRLock(m) ==
    /\ pc = "idle"
    /\ CanRLock
    /\ mu' = mu
    /\ pc' = "running"
    /\ msg' = m
    /\ snap' = connections
    /\ skipped' = {}
    /\ senderWasSkipped' = FALSE
    /\ last' = [op |-> "dispatch", id |-> m.kind, panic |-> FALSE]
    /\ UNCHANGED <<connections, added, watchdogVars>>

\* cm.mu.RLock() and the locals of a fresh call.
Enter(m) ==
    /\ pc = "idle"
    /\ CanRLock
    /\ mu' = RLocked
    /\ pc' = "running"
    /\ msg' = m
    /\ snap' = connections
    /\ skipped' = {}
    /\ senderWasSkipped' = FALSE
    /\ last' = [op |-> "dispatch", id |-> m.kind, panic |-> FALSE]
    /\ UNCHANGED <<connections, added, watchdogVars>>

\* broadcastMessage(msg) with a *types.ChatMessage: up to the range loop.
DispatchChat(m) ==
    /\ Enter(m)
    /\ pending' = Keys
    /\ sentCount' = 0
    /\ writes' = <<>>
    /\ panicked' = FALSE

\* The chat loop dropping from the map an entry whose write failed.
ChatStep_DropFailed(ip) ==
    /\ pc = "running" /\ msg.kind = "chat"
    /\ ip \in pending
    /\ pending' = pending \ {ip}
    /\ LET c == connections[ip] IN
       IF IsRecipient(c)
       THEN IF IsSkippedSender(c, msg)
            THEN /\ senderWasSkipped' = TRUE
                 /\ skipped' = skipped \cup {ip}
                 /\ UNCHANGED <<sentCount, writes, connections>>
            ELSE \E r \in WriteResults(canonChatMsg(msg)) :
                 /\ writes' = Append(writes, WriteRec(c, canonChatMsg(msg), r))
                 /\ sentCount' = IF Delivered(r, msg) THEN sentCount + 1 ELSE sentCount
                 /\ connections' = IF Delivered(r, msg) THEN connections
                                   ELSE [connections EXCEPT ![ip] = NoConn]
                 /\ UNCHANGED <<senderWasSkipped, skipped>>
       ELSE UNCHANGED <<senderWasSkipped, skipped, sentCount, writes, connections>>
    /\ UNCHANGED <<mu, pc, msg, snap, panicked, last, added, watchdogVars>>

\* One iteration of the range loop of the ChatMessage case.
ChatStep(ip) ==
    /\ pc = "running" /\ msg.kind = "chat"
    /\ ip \in pending
    /\ pending' = pending \ {ip}
    /\ LET c == connections[ip] IN
       IF IsRecipient(c)
       THEN IF IsSkippedSender(c, msg)
            THEN /\ senderWasSkipped' = TRUE
                 /\ skipped' = skipped \cup {ip}
                 /\ UNCHANGED <<sentCount, writes>>
            ELSE \E r \in WriteResults(canonChatMsg(msg)) :
                 /\ writes' = Append(writes, WriteRec(c, canonChatMsg(msg), r))
                 /\ sentCount' = IF Delivered(r, msg) THEN sentCount + 1 ELSE sentCount
                 /\ UNCHANGED <<senderWasSkipped, skipped>>
       ELSE UNCHANGED <<senderWasSkipped, skipped, sentCount, writes>>
    /\ UNCHANGED <<connections, mu, pc, msg, snap, panicked, last, added, watchdogVars>>

\* The SysMessage case with a missing recipient treated like removeConn
\* treats a missing id: a panic.
DispatchSys_PanicOnMiss(m) ==
    /\ Enter(m)
    /\ IF m.Recipient # ""
       THEN /\ pending' = {}
            /\ IF DirectedExists(m)
               THEN \E r \in WriteResults(m.Contents) :
                    /\ writes' = <<WriteRec(connections[m.Recipient], m.Contents, r)>>
                    /\ sentCount' = IF Delivered(r, m) THEN 1 ELSE 0
                    /\ panicked' = FALSE
               ELSE /\ writes' = <<>>
                    /\ sentCount' = 0
                    /\ panicked' = TRUE
       ELSE /\ pending' = Keys
            /\ writes' = <<>>
            /\ sentCount' = 0
            /\ panicked' = FALSE

\* broadcastMessage(msg) with a *types.SysMessage: the directed branch as a
\* whole, the broadcast branch up to its range loop.
DispatchSys(m) ==
    /\ Enter(m)
    /\ panicked' = FALSE
    /\ IF m.Recipient # ""
       THEN /\ pending' = {}
            /\ IF DirectedExists(m)
               THEN \E r \in WriteResults(m.Contents) :
                    /\ writes' = <<WriteRec(connections[m.Recipient], m.Contents, r)>>
                    /\ sentCount' = IF Delivered(r, m) THEN 1 ELSE 0
               ELSE /\ writes' = <<>>
                    /\ sentCount' = 0
       ELSE /\ pending' = Keys
            /\ writes' = <<>>
            /\ sentCount' = 0

\* One iteration of the range loop of the SysMessage broadcast branch.
SysStep(ip) ==
    /\ pc = "running" /\ msg.kind = "sys"
    /\ ip \in pending
    /\ pending' = pending \ {ip}
    /\ LET c == connections[ip] IN
       IF IsRecipient(c)
       THEN \E r \in WriteResults(msg.Contents) :
            /\ writes' = Append(writes, WriteRec(c, msg.Contents, r))
            /\ sentCount' = IF Delivered(r, msg) THEN sentCount + 1 ELSE sentCount
       ELSE UNCHANGED <<sentCount, writes>>
    /\ UNCHANGED <<connections, mu, pc, msg, snap, panicked, last, added,
                   senderWasSkipped, skipped, watchdogVars>>

\* broadcastMessage(msg) with any other type: the default case panics.
DispatchOther(m) ==
    /\ Enter(m)
    /\ panicked' = TRUE
    /\ pending' = {}
    /\ writes' = <<>>
    /\ sentCount' = 0

\* The loop is over (or the case had none): sentCount is what the call returns.
AtReturn == pc = "running" /\ pending = {}

\* The deferred cm.mu.RUnlock() and the return of sentCount (or the panic
\* leaving the call); the locals of the call are gone.
Return ==
    /\ AtReturn
    /\ pc' = "idle"
    /\ mu' = RUnlocked(mu)
    /\ msg' = NoMsg
    /\ senderWasSkipped' = FALSE
    /\ sentCount' = 0
    /\ writes' = <<>>
    /\ skipped' = {}
    /\ snap' = [ip \in Ids |-> NoConn]
    /\ panicked' = FALSE
    /\ last' = [op |-> "return", id |-> msg.kind, panic |-> panicked]
    /\ UNCHANGED <<connections, pending, added, watchdogVars>>

(* ------------------------------- Next --------------------------------- *)

Next ==
    \/ \E ip \in Ids : AddConn(ip)
    \/ \E ip \in Ids : RemoveConn(ip)
    \/ \E ip \in Ids : MarkAsConnected(ip)
    \/ \E ip \in Ids, name \in Names : SetParticipant(ip, name)
    \/ \E name \in Names : HasConnectedParticipant(name)
    \/ \E m \in ChatMessages : DispatchChat(m)
    \/ \E m \in SysMessages : DispatchSys(m)
    \/ \E m \in OtherMessages : DispatchOther(m)
    \/ \E ip \in Ids : ChatStep(ip)
    \/ \E ip \in Ids : SysStep(ip)
    \/ Return

Spec == Init /\ [][Next]_vars

(* ------------------------- idle watchdog ------------------------------ *)

\* A receive from timer.C can proceed.
TimerReadable ==
    IF timerMode = "async" THEN timerC = 1
    ELSE timer.active /\ now >= timer.when

\* The receive from timer.C.
TimerReceive ==
    IF timerMode = "async"
    THEN timerC' = 0 /\ UNCHANGED timer
    ELSE timer' = [timer EXCEPT !.active = FALSE] /\ UNCHANGED timerC

\* A receive from c.abortConnectionTimeout can proceed.
AbortReadable == chanBuf > 0 \/ resetSender = "offering"

\* timer := time.NewTimer(c.timeout)
WStart ==
    /\ wpc = "off"
    /\ timer' = [active |-> TRUE, when |-> now + Timeout]
    /\ wpc' = "select"
    /\ UNCHANGED <<registryVars, wpath, now, timerMode, timerSending, timerC, ctxDone,
                   extCancelled, sockCloses, closedAt, resetSender, chanBuf, resets,
                   lastReset>>

\* The timer case without c.cancel().
WTimerFired_NoCancel ==
    /\ wpc = "select"
    /\ TimerReadable
    /\ TimerReceive
    /\ sockCloses' = sockCloses + 1
    /\ closedAt' = now
    /\ wpc' = "done"
    /\ wpath' = "timer"
    /\ UNCHANGED <<registryVars, now, timerMode, timerSending, extCancelled, resetSender,
                   chanBuf, resets, lastReset, ctxDone>>

\* The timer case also moving the connection out of connectedState.
WTimerFired_MarkClosed ==
    /\ wpc = "select"
    /\ TimerReadable
    /\ TimerReceive
    /\ sockCloses' = sockCloses + 1
    /\ closedAt' = now
    /\ ctxDone' = TRUE
    /\ wpc' = "done"
    /\ wpath' = "timer"
    /\ connections' = IF doesConnExist(Watched)
                      THEN [connections EXCEPT ![Watched].state = 2]
                      ELSE connections
    /\ UNCHANGED <<mu, dispatchVars, last, added, now, timerMode, timerSending,
                   extCancelled, resetSender, chanBuf, resets, lastReset>>

\* case <-timer.C: c.netConn.Close(); c.cancel(); return
WTimerFired ==
    /\ wpc = "select"
    /\ TimerReadable
    /\ TimerReceive
    /\ sockCloses' = sockCloses + 1
    /\ closedAt' = now
    /\ ctxDone' = TRUE
    /\ wpc' = "done"
    /\ wpath' = "timer"
    /\ UNCHANGED <<registryVars, now, timerMode, timerSending, extCancelled, resetSender,
                   chanBuf, resets, lastReset>>

\* case <-c.abortConnectionTimeout: the receive.
WAbort ==
    /\ wpc = "select"
    /\ AbortReadable
    /\ IF chanBuf > 0
       THEN chanBuf' = chanBuf - 1 /\ UNCHANGED resetSender
       ELSE resetSender' = "idle" /\ UNCHANGED chanBuf
    /\ lastReset' = now
    /\ wpc' = "stop"
    /\ UNCHANGED <<registryVars, wpath, now, timerMode, timer, timerSending, timerC,
                   ctxDone, extCancelled, sockCloses, closedAt, resets>>

\* The stop followed by an unconditional receive from timer.C.
WStop_AlwaysDrain ==
    /\ wpc = "stop"
    /\ timer' = [timer EXCEPT !.active = FALSE]
    /\ wpc' = "drain"
    /\ UNCHANGED <<registryVars, wpath, now, timerMode, timerSending, timerC, ctxDone,
                   extCancelled, sockCloses, closedAt, resetSender, chanBuf, resets,
                   lastReset>>

\* if !timer.Stop() { ... }: Stop reports whether it stopped a running timer.
WStop ==
    /\ wpc = "stop"
    /\ timer' = [timer EXCEPT !.active = FALSE]
    /\ wpc' = IF timer.active THEN "reset" ELSE "drain"
    /\ UNCHANGED <<registryVars, wpath, now, timerMode, timerSending, timerC, ctxDone,
                   extCancelled, sockCloses, closedAt, resetSender, chanBuf, resets,
                   lastReset>>

\* <-timer.C after a Stop that returned false.
WDrain ==
    /\ wpc = "drain"
    /\ TimerReadable
    /\ TimerReceive
    /\ wpc' = "reset"
    /\ UNCHANGED <<registryVars, wpath, now, timerMode, timerSending, ctxDone,
                   extCancelled, sockCloses, closedAt, resetSender, chanBuf, resets,
                   lastReset>>

\* A reset that re-arms the timer only if its deadline has passed.
WReset_KeepDeadline ==
    /\ wpc = "reset"
    /\ timer' = [active |-> TRUE,
                 when |-> IF timer.when > now THEN timer.when ELSE now + Timeout]
    /\ wpc' = "select"
    /\ UNCHANGED <<registryVars, wpath, now, timerMode, timerSending, timerC, ctxDone,
                   extCancelled, sockCloses, closedAt, resetSender, chanBuf, resets,
                   lastReset>>

\* timer.Reset(c.timeout), then the next turn of the loop.
WReset ==
    /\ wpc = "reset"
    /\ timer' = [active |-> TRUE, when |-> now + Timeout]
    /\ wpc' = "select"
    /\ UNCHANGED <<registryVars, wpath, now, timerMode, timerSending, timerC, ctxDone,
                   extCancelled, sockCloses, closedAt, resetSender, chanBuf, resets,
                   lastReset>>

\* The cancellation case closing the socket as the timer case does.
WCancelled_Close ==
    /\ wpc = "select"
    /\ ctxDone
    /\ sockCloses' = sockCloses + 1
    /\ closedAt' = now
    /\ wpc' = "done"
    /\ wpath' = "cancel"
    /\ UNCHANGED <<registryVars, now, timerMode, timer, timerSending, timerC, ctxDone,
                   extCancelled, resetSender, chanBuf, resets, lastReset>>

\* case <-c.ctx.Done(): return
WCancelled ==
    /\ wpc = "select"
    /\ ctxDone
    /\ wpc' = "done"
    /\ wpath' = "cancel"
    /\ UNCHANGED <<registryVars, now, timerMode, timer, timerSending, timerC, ctxDone,
                   extCancelled, sockCloses, closedAt, resetSender, chanBuf, resets,
                   lastReset>>

\* The runtime finds the timer due: the timer stops being active (Stop now
\* returns false) and its send on timer.C is on the way.
TimerExpire ==
    /\ timerMode = "async"
    /\ timer.active
    /\ now >= timer.when
    /\ timer' = [timer EXCEPT !.active = FALSE]
    /\ timerSending' = TRUE
    /\ UNCHANGED <<registryVars, wpc, wpath, now, timerMode, timerC, ctxDone,
                   extCancelled, sockCloses, closedAt, resetSender, chanBuf, resets,
                   lastReset>>

\* The runtime's non-blocking send of the expiry on timer.C (capacity 1).
TimerSend ==
    /\ timerSending
    /\ timerSending' = FALSE
    /\ timerC' = 1
    /\ UNCHANGED <<registryVars, wpc, wpath, now, timerMode, timer, ctxDone,
                   extCancelled, sockCloses, closedAt, resetSender, chanBuf, resets,
                   lastReset>>

\* The clock advances; it runs at least as far as the deadline of an armed timer.
Tick ==
    /\ now < MaxTime \/ (timer.active /\ now < timer.when)
    /\ now' = now + 1
    /\ UNCHANGED <<registryVars, wpc, wpath, timerMode, timer, timerSending, timerC,
                   ctxDone, extCancelled, sockCloses, closedAt, resetSender, chanBuf,
                   resets, lastReset>>

\* c.cancel() called by the session (graceful shutdown).
ExternalCancel ==
    /\ ~extCancelled
    /\ extCancelled' = TRUE
    /\ ctxDone' = TRUE
    /\ UNCHANGED <<registryVars, wpc, wpath, now, timerMode, timer, timerSending,
                   timerC, sockCloses, closedAt, resetSender, chanBuf, resets, lastReset>>

\* The connection's reader signals activity: c.abortConnectionTimeout <- struct{}{}
OfferReset ==
    /\ resetSender = "idle"
    /\ resets < MaxResets
    /\ resets' = resets + 1
    /\ IF chanBuf < abortChanCap
       THEN chanBuf' = chanBuf + 1 /\ UNCHANGED resetSender
       ELSE resetSender' = "offering" /\ UNCHANGED chanBuf
    /\ UNCHANGED <<registryVars, wpc, wpath, now, timerMode, timer, timerSending,
                   timerC, ctxDone, extCancelled, sockCloses, closedAt, lastReset>>

\* A registry holding the watched connection, authenticated and connected,
\* whose watchdog is about to start.
WInit ==
    /\ connections = [ip \in Ids |->
                         IF ip = Watched
                         THEN [newConn(ip) EXCEPT !.username = <<"a">>,
                                                  !.state = connectedState]
                         ELSE NoConn]
    /\ mu = [writer |-> FALSE, readers |-> 0]
    /\ pc = "idle"
    /\ msg = NoMsg
    /\ pending = {}
    /\ senderWasSkipped = FALSE
    /\ sentCount = 0
    /\ writes = <<>>
    /\ skipped = {}
    /\ snap = [ip \in Ids |-> NoConn]
    /\ panicked = FALSE
    /\ last = [op |-> "none"]
    /\ added = {Watched}
    /\ timerMode \in TimerModes
    /\ WatchdogNotStarted

WNext ==
    \/ WStart
    \/ WTimerFired
    \/ WAbort
    \/ WStop
    \/ WDrain
    \/ WReset
    \/ WCancelled
    \/ TimerExpire
    \/ TimerSend
    \/ Tick
    \/ ExternalCancel
    \/ OfferReset
    \/ \E name \in Names : HasConnectedParticipant(name)
    \/ RemoveConn(Watched)
    \/ \E m \in SysMessages : m.Recipient = "" /\ DispatchSys(m)
    \/ SysStep(Watched)
    \/ Return

SpecW == WInit /\ [][WNext]_vars

\* The scheduler runs every goroutine that can take a step, the runtime
\* delivers due timers and time passes.
SpecWFair ==
    /\ SpecW
    /\ WF_vars(WStart) /\ WF_vars(WTimerFired) /\ WF_vars(WStop) /\ WF_vars(WDrain)
    /\ WF_vars(WReset) /\ WF_vars(WCancelled) /\ WF_vars(WAbort)
    /\ WF_vars(TimerExpire) /\ WF_vars(TimerSend) /\ WF_vars(Tick)


(* ---------------------- vocabulary of the properties ------------------ *)

\* Number of write attempts the dispatch in flight made on the entry of ip.
WritesTo(ip) == Cardinality({i \in 1..Len(writes) : writes[i].ip = ip})

\* A write that succeeded and wrote the whole of what it was given.
FullWrite(w) == ~w.err /\ w.n = Len(w.data)

FullWrites == {i \in 1..Len(writes) : FullWrite(writes[i])}

\* The registry entries in state Connected.
ConnectedKeys == {ip \in Keys : connections[ip].state = connectedState}

\* The Connected entries whose identity equals the sender, ignoring case.
SenderKeys == {ip \in ConnectedKeys : EqualFold(connections[ip].username, msg.Sender)}

ChatAtReturn == AtReturn /\ msg.kind = "chat"

SysBroadcast == pc = "running" /\ msg.kind = "sys" /\ msg.Recipient = ""

SysDirected == pc = "running" /\ msg.kind = "sys" /\ msg.Recipient # ""

Free == [writer |-> FALSE, readers |-> 0]

(* ------------------------------- C1 ----------------------------------- *)

\* C1: when a chat dispatch returns and every write it made succeeded in
\* full, the returned count is the number of Connected entries that were
\* not skipped as the sender.
C1_ChatCountsFullWrites ==
    (ChatAtReturn /\ \A i \in 1..Len(writes) : FullWrite(writes[i]))
        => sentCount = Cardinality(ConnectedKeys \ skipped)

(* ------------------------------- C2 ----------------------------------- *)

\* C2 as stated: no dispatch of any kind or destination attempts a write on
\* an entry whose state is not Connected.
C2_NoWriteUnlessConnected ==
    pc = "running" =>
        \A i \in 1..Len(writes) : connections[writes[i].ip].state = connectedState

\* C2 amended: a broadcast dispatch (chat, system) attempts no write on an
\* entry that is not Connected; a directed system message attempts its one
\* write on the entry registered under the recipient id, whatever the state
\* of that entry, and on no other.
C2_BroadcastWritesConnectedOnly ==
    /\ (pc = "running" /\ ~SysDirected) =>
           \A i \in 1..Len(writes) : writes[i].ip \in ConnectedKeys
    /\ SysDirected =>
           \A ip \in Ids : WritesTo(ip) = IF ip = msg.Recipient /\ ip \in Keys THEN 1 ELSE 0

\* A directed system message was written to a Pending entry.
C2_Witness ==
    /\ SysDirected
    /\ msg.Recipient \in Keys \ ConnectedKeys
    /\ WritesTo(msg.Recipient) = 1

(* ------------------------------- C3 ----------------------------------- *)

\* C3: a chat dispatch skips at most one entry, a Connected one whose
\* identity equals the sender ignoring case, and it is the first such entry
\* the loop meets (none of them is written to before the skip); at the
\* return exactly one is skipped if any exists, and every other Connected
\* entry, the sender's further entries included, has exactly one write.
C3_SingleSenderSkip ==
    (pc = "running" /\ msg.kind = "chat") =>
        /\ skipped \subseteq SenderKeys
        /\ Cardinality(skipped) <= 1
        /\ senderWasSkipped <=> skipped # {}
        /\ skipped = {} => \A ip \in SenderKeys : WritesTo(ip) = 0
        /\ AtReturn =>
              /\ SenderKeys # {} => Cardinality(skipped) = 1
              /\ \A ip \in Ids :
                    WritesTo(ip) = IF ip \in ConnectedKeys \ skipped THEN 1 ELSE 0

\* A chat dispatch returned with two Connected entries of the sender's
\* identity: one skipped, the other written to.
C3_Witness ==
    /\ ChatAtReturn
    /\ Cardinality(SenderKeys) >= 2
    /\ \E ip \in SenderKeys : WritesTo(ip) = 1
    /\ \E ip \in SenderKeys : connections[ip].username # msg.Sender

(* ------------------------------- C4 ----------------------------------- *)

\* C4: a broadcast system message skips nobody and writes the payload only
\* to Connected entries, at most once each; at the return every Connected
\* entry has exactly one write of the payload and no other entry has any.
C4_SysBroadcastReachesConnected ==
    SysBroadcast =>
        /\ skipped = {}
        /\ \A i \in 1..Len(writes) : writes[i].data = msg.Contents
        /\ \A ip \in Ids : WritesTo(ip) <= (IF ip \in ConnectedKeys THEN 1 ELSE 0)
        /\ AtReturn =>
              \A ip \in Ids : WritesTo(ip) = IF ip \in ConnectedKeys THEN 1 ELSE 0

\* A broadcast system message returned after writing to a Connected entry
\* and passing over a Pending one.
C4_Witness ==
    /\ SysBroadcast /\ AtReturn
    /\ ConnectedKeys # {}
    /\ Keys \ ConnectedKeys # {}
    /\ Len(writes) = Cardinality(ConnectedKeys)

(* ------------------------------- C5 ----------------------------------- *)

\* C5: a directed system message whose recipient is not a key of the
\* registry writes nothing, counts nothing and does not panic.
C5_DirectedAbsentIsNoOp ==
    (SysDirected /\ msg.Recipient \notin Keys) =>
        /\ writes = <<>>
        /\ sentCount = 0
        /\ ~panicked

\* A directed system message to an absent id, with other entries Connected.
C5_Witness ==
    /\ SysDirected /\ AtReturn
    /\ msg.Recipient \notin Keys
    /\ ConnectedKeys # {}

(* ------------------------------- C6 ----------------------------------- *)

\* C6: a directed system message whose recipient is registered makes one
\* write, of the payload, on the recipient's entry and none on another; it
\* returns 1 when that write succeeded in full and 0 otherwise.
C6_DirectedPresentWritesRecipientOnly ==
    (SysDirected /\ msg.Recipient \in Keys) =>
        /\ Len(writes) = 1
        /\ writes[1].ip = msg.Recipient
        /\ writes[1].data = msg.Contents
        /\ sentCount = IF FullWrite(writes[1]) THEN 1 ELSE 0

\* A directed system message delivered to one of several Connected entries.
C6_Witness ==
    /\ SysDirected /\ AtReturn
    /\ msg.Recipient \in ConnectedKeys
    /\ Cardinality(ConnectedKeys) >= 2
    /\ sentCount = 1

(* ------------------------------- C7 ----------------------------------- *)

\* C7: a failed delivery never aborts a broadcast dispatch: at the return
\* every eligible Connected entry has had exactly one write attempt (none
\* is retried), nothing panicked, and the count holds no recipient whose
\* write failed (it is at most the number of writes that succeeded in full).
C7_FailureDoesNotAbortBroadcast ==
    (AtReturn /\ (msg.kind = "chat" \/ SysBroadcast)) =>
        /\ \A ip \in Ids :
              WritesTo(ip) = IF ip \in ConnectedKeys \ skipped THEN 1 ELSE 0
        /\ ~panicked
        /\ sentCount <= Cardinality(FullWrites)

(* ------------------------------- C8 ----------------------------------- *)

\* C8: addConn on an id that is already registered is an invariant
\* violation: it panics, inserts nothing and leaves the stored entry as it was.
C8_AddOnPresentIdIsRejected ==
    [][\A ip \in Ids :
          (AddConn(ip) /\ doesConnExist(ip)) =>
              (last'.panic /\ connections' = connections)]_vars

(* ------------------------------- C9 ----------------------------------- *)

\* C9: removeConn and markAsConnected on an id that is not registered panic
\* and leave every entry of the registry as it was; the lock is free
\* afterwards, so that the next operation can take it.
C9_AbsentIdPanicsAndChangesNothing ==
    [][\A ip \in Ids :
          ((RemoveConn(ip) \/ MarkAsConnected(ip)) /\ ~doesConnExist(ip)) =>
              /\ last'.panic
              /\ last'.id = ip
              /\ connections' = connections
              /\ mu' = Free]_vars

\* removeConn or markAsConnected has just panicked on an absent id while
\* other ids are registered.
C9_Witness ==
    /\ last.op \in {"remove", "mark"}
    /\ last.panic
    /\ Keys # {}
    /\ mu = Free

(* ------------------------------- C10 ---------------------------------- *)

\* C10: an id is a key of the registry exactly when an addConn for it has
\* happened with no later removeConn; after a removeConn the id is absent,
\* no write of a dispatch goes to an id outside that window and a lookup by
\* username that answers true is answered by an entry inside it.
C10_PresentBetweenAddAndRemove ==
    /\ \A ip \in Ids : doesConnExist(ip) <=> ip \in added
    /\ (last.op = "remove" /\ ~last.panic) => ~doesConnExist(last.id)
    /\ \A i \in 1..Len(writes) : writes[i].ip \in added
    /\ (last.op = "has" /\ last.result) =>
           \E ip \in added :
               /\ connections[ip].state = connectedState
               /\ connections[ip].username = last.id

\* An id that was added has just been removed, others remaining.
C10_Witness ==
    /\ last.op = "remove"
    /\ ~last.panic
    /\ ~doesConnExist(last.id)
    /\ added # {}

(* ------------------------------- C11 ---------------------------------- *)

\* C11: the state registered under an id only moves forward: no step takes
\* the state of an id that stays registered from Connected back to Pending.
C11_StateOnlyMovesForward ==
    [][\A ip \in Ids :
          (connections[ip] # NoConn /\ connections'[ip] # NoConn) =>
              connections'[ip].state >= connections[ip].state]_vars

(* ------------------------------- C16 ---------------------------------- *)

\* C16: while a dispatch is in flight it holds the read lock, no writer can
\* take the lock, and the registry has the entries and the states it had
\* when the dispatch took the lock; further readers are still admitted.
C16_DispatchSeesOneSnapshot ==
    pc = "running" =>
        /\ mu.readers >= 1
        /\ ~mu.writer
        /\ ~CanLock
        /\ CanRLock
        /\ \A ip \in Ids :
              /\ connections[ip] = NoConn <=> snap[ip] = NoConn
              /\ connections[ip] # NoConn => connections[ip].state = snap[ip].state

\* A lookup ran while a dispatch that had already written was still iterating.
C16_Witness ==
    /\ pc = "running"
    /\ pending # {}
    /\ writes # <<>>
    /\ last.op = "has"

(* ------------------------------- C17 ---------------------------------- *)

\* C17: hasConnectedParticipant(username) answers true exactly when some
\* entry is Connected and its username equals the argument, letter case
\* included.
C17_HasConnectedParticipantExact ==
    last.op = "has" =>
        (last.result <=> \E ip \in ConnectedKeys : connections[ip].username = last.id)

\* The lookup answered false although a Connected entry has the name in
\* another letter case and a Pending entry has the very name.
C17_Witness ==
    /\ last.op = "has"
    /\ ~last.result
    /\ \E ip \in ConnectedKeys :
          /\ connections[ip].username # last.id
          /\ EqualFold(connections[ip].username, last.id)
    /\ \E ip \in Keys \ ConnectedKeys : connections[ip].username = last.id

(* ------------------------------- C20 ---------------------------------- *)

\* C20: no step of a dispatch (its entry, its loop iterations, its return,
\* whatever the message and the results of the writes) and no
\* hasConnectedParticipant call changes the registry: the ids, and the
\* state and username of every entry, are as before.
C20_DispatchAndLookupAreReadOnly ==
    [][(\/ \E m \in ChatMessages : DispatchChat(m)
        \/ \E m \in SysMessages : DispatchSys(m)
        \/ \E m \in OtherMessages : DispatchOther(m)
        \/ \E ip \in Ids : ChatStep(ip)
        \/ \E ip \in Ids : SysStep(ip)
        \/ Return
        \/ \E name \in Names : HasConnectedParticipant(name))
          => (connections' = connections /\ added' = added)]_vars

\* A dispatch with a failed write is about to return over a registry that
\* holds entries.
C20_Witness ==
    /\ AtReturn
    /\ \E i \in 1..Len(writes) : ~FullWrite(writes[i])
    /\ Keys \ ConnectedKeys # {}

(* ---------------- vocabulary of the watchdog properties --------------- *)

WatchedRegistered == doesConnExist(Watched)

\* A notification of the timer is buffered or on its way.
TimerNotified == timerC = 1 \/ timerSending

(* ------------------------------- C12 ---------------------------------- *)

\* C12: if no reset is ever delivered to the watchdog and the cancellation
\* token is never signaled from outside, the watchdog eventually takes the
\* timer case: it has closed the socket, signaled the token and returned.
C12_IdleWatchdogCloses ==
    ([](lastReset = Never /\ ~extCancelled))
        => <>(wpc = "done" /\ wpath = "timer" /\ sockCloses = 1 /\ ctxDone)

\* The watchdog timed out with no reset offered and no outside cancellation.
C12_Witness ==
    /\ wpc = "done" /\ wpath = "timer"
    /\ resets = 0 /\ ~extCancelled
    /\ sockCloses = 1 /\ ctxDone
    /\ closedAt >= Timeout

(* ------------------------------- C13 ---------------------------------- *)

C14_ResetRestartsFullWindow ==
    sockCloses > 0 =>
        /\ closedAt >= Timeout
        /\ lastReset # Never => closedAt >= lastReset + Timeout

\* The watchdog closed the socket after having received every reset offered.
C14_Witness ==
    /\ sockCloses = 1
    /\ resets = MaxResets
    /\ resetSender = "idle"
    /\ lastReset > 0
    /\ closedAt >= lastReset + Timeout

(* ------------------------------- C15 ---------------------------------- *)

\* C15 as stated: once the token has been signaled from outside, the
\* watchdog never closes the socket.
C15_NoCloseAfterExternalCancel ==
    [][extCancelled => sockCloses' = sockCloses]_vars

\* C15 amended: the socket is closed only through the timer case, and a
\* watchdog that returns through the cancellation case has not touched it.
C15_CloseOnlyOnTimerPath ==
    /\ wpath = "cancel" => (sockCloses = 0 /\ closedAt = Never)
    /\ sockCloses > 0 => wpath = "timer"
    /\ wpath = "timer" => sockCloses = 1

\* The watchdog returned through the cancellation case, the token signaled
\* from outside, while the timer's deadline had passed.
C15_Witness ==
    /\ wpath = "cancel"
    /\ extCancelled
    /\ now >= timer.when
    /\ sockCloses = 0

(* ------------------------------- C18 ---------------------------------- *)

\* What the reset branch keeps true: a drain is entered only when a
\* notification is buffered or on its way; the timer is re-armed with the
\* channel empty; at the select a notification belongs to the current
\* arming, whose deadline has passed.
C18_NoStaleNotification ==
    /\ wpc = "drain" => (timerMode = "async" /\ TimerNotified)
    /\ wpc = "reset" => (~TimerNotified /\ ~timer.active)
    /\ (wpc = "select" /\ TimerNotified) => (now >= timer.when /\ ~timer.active)
    /\ (wpc = "select" /\ ~TimerNotified /\ wpath = "none") => timer.active

\* C18: the reset branch always completes and comes back to the select with
\* the timer freshly armed and no stale notification.
C18_ResetBranchCompletes ==
    /\ []C18_NoStaleNotification
    /\ [][WReset => (timer'.active /\ timer'.when = now + Timeout /\ ~TimerNotified')]_vars
    /\ (wpc \in {"stop", "drain", "reset"}) ~> (wpc = "select")

\* A reset was received after the timer had expired: the branch is draining.
C18_Witness ==
    /\ wpc = "drain"
    /\ lastReset # Never

(* ------------------------------- C19 ---------------------------------- *)

\* C19: the watchdog closes the socket at most once, and once it has
\* returned it stays returned: no reset is received any more, a reset
\* offered then blocks its sender and a blocked sender stays blocked.
C19_NoReceiverAfterReturn ==
    [][/\ sockCloses' <= 1
       /\ wpc = "done" =>
             /\ wpc' = "done"
             /\ lastReset' = lastReset
             /\ sockCloses' = sockCloses
             /\ OfferReset => resetSender' = "offering"
             /\ resetSender = "offering" => resetSender' = "offering"]_vars

\* The watchdog has timed out and a reset offered to it is blocked.
C19_Witness ==
    /\ wpc = "done"
    /\ sockCloses = 1
    /\ resetSender = "offering"

====
